---- MODULE Spec2Model ----
(***************************************************************************)
(* Model of src/main.py: the Groq chatbot API.                             *)
(*                                                                         *)
(* The persistent state is the MongoDB collection `conversations`; the     *)
(* code creates no unique index on conversation_id, so the collection is   *)
(* a sequence of documents in insertion order: find_one, update_one and    *)
(* delete_one act on the first document that matches the filter.           *)
(*                                                                         *)
(* Request handlers take no lock and open no transaction.  Every call to   *)
(* the collection is one atomic step (MongoDB single-document operations   *)
(* are atomic) and the completion call is one step.  Code that only        *)
(* touches the handler's own objects is folded into the step of the        *)
(* preceding store or network call.                                        *)
(*                                                                         *)
(* Spec lets the handlers of different requests interleave between their   *)
(* steps: workers or instances of the application that share the database, *)
(* which nothing in the code excludes.  SpecSeq is one worker alone: its   *)
(* handlers are coroutines that never await, so it serves one request      *)
(* after the other.                                                        *)
(*                                                                         *)
(* In Spec and SpecSeq the completion call, with the drain of its stream,   *)
(* is one step of the handler.  SpecAgg follows query_groq_api alone, one   *)
(* chunk of the stream at a time.                                           *)
(*                                                                         *)
(* The timestamps created_at and updated_at are not modelled: no branch    *)
(* of the code reads them.                                                 *)
(***************************************************************************)
EXTENDS Integers, Sequences, FiniteSets, TLC

VARIABLES
    store,      \* conversations_collection: sequence of documents
    pc,         \* per handler: position in the request it is serving
    kind,       \* per handler: the endpoint of its current / last request
    cid,        \* per handler: conversation_id of the request
    inRole,     \* per handler: input.role
    inMsg,      \* per handler: input.message
    loaded,     \* per handler: what get_or_create_conversation returned
    created,    \* per handler: get_or_create_conversation took the insert branch
    conv,       \* per handler: the in-memory Conversation object of chat()
    sent,       \* per handler: messages handed to groq_client...create
    partial,    \* per handler: `response` of query_groq_api when it was left
    response,   \* per handler: `response` of chat() (the reply returned)
    status,     \* per handler: HTTP status of the finished request (0: none)
    body,       \* per handler: messages returned by GET /conversations/{id}
    completion, \* per handler: the chunks of the stream query_groq_api iterates
    drained     \* per handler: how many of them its loop has consumed

vars == <<store, pc, kind, cid, inRole, inMsg, loaded, created, conv, sent,
          partial, response, status, body, completion, drained>>

\* the iteration state of query_groq_api's loop
aggVars == <<completion, drained>>

-----------------------------------------------------------------------------
(* Bounds of the model *)

\* a completion is only delivered for a history of at most this many messages
MaxMessages == 3
\* request handlers that may run concurrently
Procs == {"h1", "h2"}
\* conversation ids callers supply
Ids == {"c1", "c2"}
\* the ids each handler receives requests for: both handlers meet on "c1";
\* the code treats every id alike, so races on "c1" stand for races on any id
IdsOf(p) == IF p = "h1" THEN Ids ELSE {"c1"}
\* values of input.role (a free string, default "user")
InRoles == {"user", "system"}
\* values of input.message
InMessages == {"hi"}
\* chunk.choices[0].delta.content of one chunk: None, "" or text
NoContent == [has |-> FALSE, content |-> ""]
Content(text) == [has |-> TRUE, content |-> text]
\* streams the completion service delivers to the handlers
Streams == {<<Content("a"), NoContent, Content("b")>>}
\* SpecAgg: a stream has at most this many chunks
MaxChunks == 3
\* SpecAgg: the chunks a stream is made of
Fragments == {NoContent, Content(""), Content("a"), Content("b"), Content("ab")}

-----------------------------------------------------------------------------
(* Conversation and documents *)

SystemMessage == [role |-> "system", content |-> "You are a useful AI assistant."]

\* mutant: a Conversation built without its system message
ConversationNoSystem(id) ==
    [conversation_id |-> id, messages |-> << >>, active |-> TRUE]

\* Conversation.__init__: one system message, active
Conversation(id) ==
    [conversation_id |-> id, messages |-> <<SystemMessage>>, active |-> TRUE]

NoConversation == [conversation_id |-> "", messages |-> <<>>, active |-> FALSE]

\* the document insert_one writes for a new Conversation
NewDocument(c) ==
    [conversation_id |-> c.conversation_id, messages |-> c.messages,
     active |-> c.active, seeded |-> FALSE]

\* a conversation placed in the collection out-of-band with active = false
SeededInactive(id) ==
    [conversation_id |-> id, messages |-> <<SystemMessage>>,
     active |-> FALSE, seeded |-> TRUE]

SeedStores == {<< >>, <<SeededInactive("c1")>>}

-----------------------------------------------------------------------------
(* The collection's operations *)

Matching(s, id) == {i \in 1..Len(s) : s[i].conversation_id = id}

HasDoc(s, id) == Matching(s, id) # {}

\* index of the first document matching {"conversation_id": id}
FirstIndex(s, id) == CHOOSE i \in Matching(s, id) : \A j \in Matching(s, id) : i <= j

\* find_one({"conversation_id": id}) when a document matches
FindOne(s, id) == s[FirstIndex(s, id)]

\* insert_one(doc)
InsertOne(s, doc) == Append(s, doc)

\* mutant: the two newest messages are pushed onto the stored list ($push)
UpdateOnePush(s, id, messages, active) ==
    IF HasDoc(s, id)
    THEN [s EXCEPT ![FirstIndex(s, id)].messages =
                       @ \o SubSeq(messages, Len(messages) - 1, Len(messages)),
                   ![FirstIndex(s, id)].active = active]
    ELSE s

\* mutant: only the newest exchange is stored
UpdateOneLatest(s, id, messages, active) ==
    IF HasDoc(s, id)
    THEN [s EXCEPT ![FirstIndex(s, id)].messages =
                       SubSeq(messages, Len(messages) - 1, Len(messages)),
                   ![FirstIndex(s, id)].active = active]
    ELSE s

\* mutant: update_one(..., upsert=True) inserts when no document matches
UpdateOneUpsert(s, id, messages, active) ==
    IF HasDoc(s, id)
    THEN [s EXCEPT ![FirstIndex(s, id)].messages = messages,
                   ![FirstIndex(s, id)].active = active]
    ELSE Append(s, [conversation_id |-> id, messages |-> messages,
                    active |-> active, seeded |-> FALSE])

\* mutant: the write marks the session as ended
UpdateOneEnds(s, id, messages, active) ==
    IF HasDoc(s, id)
    THEN [s EXCEPT ![FirstIndex(s, id)].messages = messages,
                   ![FirstIndex(s, id)].active = FALSE]
    ELSE s

\* update_one({"conversation_id": id}, {"$set": {messages, active, updated_at}}):
\* sets the fields of the first match; with no match nothing is written and
\* nothing is raised
UpdateOne(s, id, messages, active) ==
    IF HasDoc(s, id)
    THEN [s EXCEPT ![FirstIndex(s, id)].messages = messages,
                   ![FirstIndex(s, id)].active = active]
    ELSE s

\* mutant: delete_one({}) removes the first document of the collection
DeleteOneUnfiltered(s, id) ==
    IF HasDoc(s, id) THEN Tail(s) ELSE s

\* delete_one({"conversation_id": id}): removes the first match
DeleteOne(s, id) ==
    IF HasDoc(s, id)
    THEN [i \in 1..(Len(s) - 1) |-> IF i < FirstIndex(s, id) THEN s[i] ELSE s[i + 1]]
    ELSE s

\* result.deleted_count
DeletedCount(s, id) == IF HasDoc(s, id) THEN 1 ELSE 0

-----------------------------------------------------------------------------
(* The completion stream *)

\* the loop of query_groq_api: a chunk's content is added when it is truthy
RECURSIVE Aggregate(_)
Aggregate(cs) ==
    IF cs = << >> THEN ""
    ELSE LET c == cs[Len(cs)]
             init == Aggregate(SubSeq(cs, 1, Len(cs) - 1))
         IN IF c.has /\ c.content # "" THEN init \o c.content ELSE init

\* the chunks received when a stream ends, normally or not
Prefixes(cs) == {SubSeq(cs, 1, n) : n \in 0..Len(cs)}

-----------------------------------------------------------------------------
Init ==
    /\ store \in SeedStores
    /\ pc = [p \in Procs |-> "idle"]
    /\ kind = [p \in Procs |-> "none"]
    /\ cid = [p \in Procs |-> "c1"]
    /\ inRole = [p \in Procs |-> "user"]
    /\ inMsg = [p \in Procs |-> "hi"]
    /\ loaded = [p \in Procs |-> NoConversation]
    /\ created = [p \in Procs |-> FALSE]
    /\ conv = [p \in Procs |-> NoConversation]
    /\ sent = [p \in Procs |-> << >>]
    /\ partial = [p \in Procs |-> ""]
    /\ response = [p \in Procs |-> ""]
    /\ status = [p \in Procs |-> 0]
    /\ body = [p \in Procs |-> << >>]
    /\ completion = [p \in Procs |-> << >>]
    /\ drained = [p \in Procs |-> 0]

\* the locals of a handler at the start of a request
Begin(p, k, id, role, msg) ==
    /\ pc[p] = "idle"
    /\ kind' = [kind EXCEPT ![p] = k]
    /\ cid' = [cid EXCEPT ![p] = id]
    /\ inRole' = [inRole EXCEPT ![p] = role]
    /\ inMsg' = [inMsg EXCEPT ![p] = msg]
    /\ sent' = [sent EXCEPT ![p] = << >>]
    /\ partial' = [partial EXCEPT ![p] = ""]
    /\ response' = [response EXCEPT ![p] = ""]

\* the handler returns: its response stays, its locals are gone
Return(p, code) ==
    /\ pc' = [pc EXCEPT ![p] = "idle"]
    /\ status' = [status EXCEPT ![p] = code]
    /\ inRole' = [inRole EXCEPT ![p] = "user"]
    /\ inMsg' = [inMsg EXCEPT ![p] = "hi"]
    /\ loaded' = [loaded EXCEPT ![p] = NoConversation]
    /\ created' = [created EXCEPT ![p] = FALSE]
    /\ conv' = [conv EXCEPT ![p] = NoConversation]
    /\ sent' = [sent EXCEPT ![p] = << >>]

Message(role, content) == [role |-> role, content |-> content]

\* mutant: the message is put in front of the list
PrependMessage(c, m) == [c EXCEPT !.messages = <<m>> \o c.messages]

\* lines 124-127: conversation.messages.append({role, content})
AppendMessage(c, m) == [c EXCEPT !.messages = Append(c.messages, m)]

\* lines 59-63: the Conversation built from a document
Load(d) ==
    [conversation_id |-> d.conversation_id, messages |-> d.messages,
     active |-> d.active]

\* mutant: only the two newest stored messages are kept as the history
ChatFoundWindow(p, id, role, msg) ==
    /\ UNCHANGED aggVars
    /\ Begin(p, "chat", id, role, msg)
    /\ HasDoc(store, id)
    /\ FindOne(store, id).active
    /\ loaded' = [loaded EXCEPT ![p] = Load(FindOne(store, id))]
    /\ conv' = [conv EXCEPT ![p] =
           LET c == Load(FindOne(store, id))
               n == Len(c.messages)
           IN AppendMessage(
                  [c EXCEPT !.messages = SubSeq(c.messages, IF n > 2 THEN n - 1 ELSE 1, n)],
                  Message(role, msg))]
    /\ created' = [created EXCEPT ![p] = FALSE]
    /\ pc' = [pc EXCEPT ![p] = "query"]
    /\ status' = [status EXCEPT ![p] = 0]
    /\ UNCHANGED <<store, body>>

\* chat(), lines 114-127, with get_or_create_conversation finding a document
\* (lines 56-63): load it; an active conversation gets the request's message
ChatFound(p, id, role, msg) ==
    /\ UNCHANGED aggVars
    /\ Begin(p, "chat", id, role, msg)
    /\ HasDoc(store, id)
    /\ FindOne(store, id).active
    /\ loaded' = [loaded EXCEPT ![p] = Load(FindOne(store, id))]
    /\ conv' = [conv EXCEPT ![p] =
           AppendMessage(Load(FindOne(store, id)), Message(role, msg))]
    /\ created' = [created EXCEPT ![p] = FALSE]
    /\ pc' = [pc EXCEPT ![p] = "query"]
    /\ status' = [status EXCEPT ![p] = 0]
    /\ UNCHANGED <<store, body>>

\* mutant: the active flag is not looked at
ChatInactiveIgnored(p, id, role, msg) ==
    /\ UNCHANGED aggVars
    /\ Begin(p, "chat", id, role, msg)
    /\ HasDoc(store, id)
    /\ ~FindOne(store, id).active
    /\ loaded' = [loaded EXCEPT ![p] = Load(FindOne(store, id))]
    /\ conv' = [conv EXCEPT ![p] =
           AppendMessage(Load(FindOne(store, id)), Message(role, msg))]
    /\ created' = [created EXCEPT ![p] = FALSE]
    /\ pc' = [pc EXCEPT ![p] = "query"]
    /\ status' = [status EXCEPT ![p] = 0]
    /\ UNCHANGED <<store, body>>

\* chat(), lines 114-120, with get_or_create_conversation finding a document
\* whose active is false: HTTPException(400)
ChatInactive(p, id, role, msg) ==
    /\ UNCHANGED aggVars
    /\ pc[p] = "idle"
    /\ HasDoc(store, id)
    /\ ~FindOne(store, id).active
    /\ kind' = [kind EXCEPT ![p] = "chat"]
    /\ cid' = [cid EXCEPT ![p] = id]
    /\ partial' = [partial EXCEPT ![p] = ""]
    /\ response' = [response EXCEPT ![p] = ""]
    /\ Return(p, 400)
    /\ UNCHANGED <<store, body>>

\* get_or_create_conversation, lines 56-66, with find_one returning None:
\* a new Conversation is built, not yet inserted
ChatNotFound(p, id, role, msg) ==
    /\ UNCHANGED aggVars
    /\ Begin(p, "chat", id, role, msg)
    /\ ~HasDoc(store, id)
    /\ loaded' = [loaded EXCEPT ![p] = NoConversation]
    /\ created' = [created EXCEPT ![p] = TRUE]
    /\ conv' = [conv EXCEPT ![p] = Conversation(id)]
    /\ pc' = [pc EXCEPT ![p] = "insert"]
    /\ status' = [status EXCEPT ![p] = 0]
    /\ UNCHANGED <<store, body>>

\* lines 68-75 and 116-127: insert_one of the new conversation, which is
\* returned to chat(); it is active, so the request's message is appended
ChatInsert(p) ==
    /\ UNCHANGED aggVars
    /\ pc[p] = "insert"
    /\ store' = InsertOne(store, NewDocument(conv[p]))
    /\ loaded' = [loaded EXCEPT ![p] = conv[p]]
    /\ conv[p].active
    /\ conv' = [conv EXCEPT ![p] = AppendMessage(conv[p], Message(inRole[p], inMsg[p]))]
    /\ pc' = [pc EXCEPT ![p] = "query"]
    /\ UNCHANGED <<kind, cid, inRole, inMsg, created, sent, partial, response,
                   status, body>>

\* insert_one raises (the write fails): outside chat()'s try, a 500
ChatInsertError(p) ==
    /\ UNCHANGED aggVars
    /\ pc[p] = "insert"
    /\ Return(p, 500)
    /\ UNCHANGED <<store, kind, cid, partial, response, body>>

\* lines 129-134 with query_groq_api (89-106) draining the stream `cs`:
\* the reply is appended as the assistant message
QueryOk(p, cs) ==
    /\ UNCHANGED aggVars
    /\ pc[p] = "query"
    /\ Len(conv[p].messages) < MaxMessages
    /\ sent' = [sent EXCEPT ![p] = conv[p].messages]
    /\ partial' = [partial EXCEPT ![p] = Aggregate(cs)]
    /\ response' = [response EXCEPT ![p] = Aggregate(cs)]
    /\ conv' = [conv EXCEPT ![p] =
           AppendMessage(conv[p], Message("assistant", Aggregate(cs)))]
    /\ pc' = [pc EXCEPT ![p] = "save"]
    /\ UNCHANGED <<store, kind, cid, inRole, inMsg, loaded, created, status, body>>

\* mutant: the conversation is saved before the error is raised
QueryFailPersists(p, cs) ==
    /\ UNCHANGED aggVars
    /\ pc[p] = "query"
    /\ partial' = [partial EXCEPT ![p] = Aggregate(cs)]
    /\ store' = UpdateOne(store, conv[p].conversation_id, conv[p].messages, conv[p].active)
    /\ Return(p, 500)
    /\ UNCHANGED <<kind, cid, response, body>>

\* mutant: the error is swallowed and what was received so far is the reply
QueryFailKeepsPartial(p, cs) ==
    /\ UNCHANGED aggVars
    /\ pc[p] = "query"
    /\ Len(conv[p].messages) < MaxMessages
    /\ sent' = [sent EXCEPT ![p] = conv[p].messages]
    /\ partial' = [partial EXCEPT ![p] = Aggregate(cs)]
    /\ response' = [response EXCEPT ![p] = Aggregate(cs)]
    /\ conv' = [conv EXCEPT ![p] =
           AppendMessage(conv[p], Message("assistant", Aggregate(cs)))]
    /\ pc' = [pc EXCEPT ![p] = "save"]
    /\ UNCHANGED <<store, kind, cid, inRole, inMsg, loaded, created, status, body>>

\* lines 108-109 and 144-145: the call or the stream raises after the chunks
\* `cs` were received; query_groq_api raises HTTPException(500) and chat()
\* raises a 500 in its turn
QueryFail(p, cs) ==
    /\ UNCHANGED aggVars
    /\ pc[p] = "query"
    /\ partial' = [partial EXCEPT ![p] = Aggregate(cs)]
    /\ Return(p, 500)
    /\ UNCHANGED <<store, kind, cid, response, body>>

\* lines 137-142: save_conversation (77-87) and the 200 response
ChatSave(p) ==
    /\ UNCHANGED aggVars
    /\ pc[p] = "save"
    /\ store' = UpdateOne(store, conv[p].conversation_id, conv[p].messages, conv[p].active)
    /\ Return(p, 200)
    /\ UNCHANGED <<kind, cid, partial, response, body>>

\* update_one raises (the write fails): lines 144-145, a 500
ChatSaveError(p) ==
    /\ UNCHANGED aggVars
    /\ pc[p] = "save"
    /\ Return(p, 500)
    /\ response' = [response EXCEPT ![p] = ""]
    /\ UNCHANGED <<store, kind, cid, partial, body>>

\* GET /conversations/{conversation_id}, lines 147-158
GetConversation(p, id) ==
    /\ UNCHANGED aggVars
    /\ pc[p] = "idle"
    /\ kind' = [kind EXCEPT ![p] = "get"]
    /\ cid' = [cid EXCEPT ![p] = id]
    /\ partial' = [partial EXCEPT ![p] = ""]
    /\ response' = [response EXCEPT ![p] = ""]
    /\ IF HasDoc(store, id)
       THEN /\ body' = [body EXCEPT ![p] = FindOne(store, id).messages]
            /\ Return(p, 200)
       ELSE /\ body' = [body EXCEPT ![p] = << >>]
            /\ Return(p, 404)
    /\ UNCHANGED store

\* DELETE /conversations/{conversation_id}, lines 160-166
DeleteConversation(p, id) ==
    /\ UNCHANGED aggVars
    /\ pc[p] = "idle"
    /\ kind' = [kind EXCEPT ![p] = "delete"]
    /\ cid' = [cid EXCEPT ![p] = id]
    /\ partial' = [partial EXCEPT ![p] = ""]
    /\ response' = [response EXCEPT ![p] = ""]
    /\ body' = [body EXCEPT ![p] = << >>]
    /\ store' = DeleteOne(store, id)
    /\ Return(p, IF DeletedCount(store, id) = 0 THEN 404 ELSE 200)

\* the steps of handler p
Handler(p) ==
    \/ \E role \in InRoles, msg \in InMessages : \E id \in IdsOf(p) :
           ChatFound(p, id, role, msg)
    \/ \E role \in InRoles, msg \in InMessages : \E id \in IdsOf(p) :
           ChatInactive(p, id, role, msg)
    \/ \E role \in InRoles, msg \in InMessages : \E id \in IdsOf(p) :
           ChatNotFound(p, id, role, msg)
    \/ ChatInsert(p)
    \/ ChatInsertError(p)
    \/ \E cs \in Streams : QueryOk(p, cs)
    \/ \E cs \in Streams : \E got \in Prefixes(cs) : QueryFail(p, got)
    \/ ChatSave(p)
    \/ ChatSaveError(p)
    \/ \E id \in IdsOf(p) : GetConversation(p, id)
    \/ \E id \in IdsOf(p) : DeleteConversation(p, id)

Next == \E p \in Procs : Handler(p)

Spec == Init /\ [][Next]_vars

\* one worker: lines 168-170, handlers declared async that never await, so
\* a request is served only while no other is being served
NextSeq == \E p \in Procs : (\A q \in Procs : q # p => pc[q] = "idle") /\ Handler(p)

SpecSeq == Init /\ [][NextSeq]_vars

-----------------------------------------------------------------------------
(* query_groq_api alone, chunk by chunk *)

\* the streams of at most MaxChunks chunks
FragmentStreams == UNION {[1..n -> Fragments] : n \in 0..MaxChunks}

\* the text of a stream: the contents of its chunks in arrival order, a
\* chunk without content counting for no text
RECURSIVE Concat(_)
Concat(cs) ==
    IF cs = << >> THEN ""
    ELSE (IF cs[1].has THEN cs[1].content ELSE "") \o Concat(Tail(cs))

\* each handler is inside query_groq_api (line 101) with a stream to iterate;
\* the two streams carry the same text, cut into chunks in two ways
InitAgg ==
    /\ store = << >>
    /\ pc = [p \in Procs |-> "drain"]
    /\ kind = [p \in Procs |-> "chat"]
    /\ cid = [p \in Procs |-> "c1"]
    /\ inRole = [p \in Procs |-> "user"]
    /\ inMsg = [p \in Procs |-> "hi"]
    /\ loaded = [p \in Procs |-> NoConversation]
    /\ created = [p \in Procs |-> FALSE]
    /\ conv = [p \in Procs |-> NoConversation]
    /\ sent = [p \in Procs |-> << >>]
    /\ partial = [p \in Procs |-> ""]
    /\ response = [p \in Procs |-> ""]
    /\ status = [p \in Procs |-> 0]
    /\ body = [p \in Procs |-> << >>]
    /\ completion \in {f \in [Procs -> FragmentStreams] : Concat(f["h1"]) = Concat(f["h2"])}
    /\ drained = [p \in Procs |-> 0]

\* mutant: `response = ...` where the code has `response += ...`
DrainChunkAssigns(p) ==
    /\ pc[p] = "drain"
    /\ drained[p] < Len(completion[p])
    /\ LET chunk == completion[p][drained[p] + 1]
       IN partial' = [partial EXCEPT ![p] =
              IF chunk.has /\ chunk.content # "" THEN chunk.content ELSE @]
    /\ drained' = [drained EXCEPT ![p] = @ + 1]
    /\ UNCHANGED <<store, pc, kind, cid, inRole, inMsg, loaded, created, conv, sent,
                   response, status, body, completion>>

\* lines 102-104: one turn of the loop; the chunk's content is added to
\* `response` when it is truthy (neither None nor "")
DrainChunk(p) ==
    /\ pc[p] = "drain"
    /\ drained[p] < Len(completion[p])
    /\ LET chunk == completion[p][drained[p] + 1]
       IN partial' = [partial EXCEPT ![p] =
              IF chunk.has /\ chunk.content # "" THEN @ \o chunk.content ELSE @]
    /\ drained' = [drained EXCEPT ![p] = @ + 1]
    /\ UNCHANGED <<store, pc, kind, cid, inRole, inMsg, loaded, created, conv, sent,
                   response, status, body, completion>>

\* line 106: the stream is exhausted, `response` is returned
DrainReturn(p) ==
    /\ pc[p] = "drain"
    /\ drained[p] = Len(completion[p])
    /\ response' = [response EXCEPT ![p] = partial[p]]
    /\ pc' = [pc EXCEPT ![p] = "returned"]
    /\ UNCHANGED <<store, kind, cid, inRole, inMsg, loaded, created, conv, sent,
                   partial, status, body, completion, drained>>

\* lines 108-109: the call or the iteration raises; HTTPException(500)
DrainRaise(p) ==
    /\ pc[p] = "drain"
    /\ status' = [status EXCEPT ![p] = 500]
    /\ pc' = [pc EXCEPT ![p] = "raised"]
    /\ UNCHANGED <<store, kind, cid, inRole, inMsg, loaded, created, conv, sent,
                   partial, response, body, completion, drained>>

NextAgg == \E p \in Procs : DrainChunk(p) \/ DrainReturn(p) \/ DrainRaise(p)

SpecAgg == InitAgg /\ [][NextAgg]_vars

-----------------------------------------------------------------------------
(* Steps of one handler, as seen in a pair of states *)

\* handler p took the step (a step of Next is a step of one handler)
Moved(p) ==
    <<pc[p], kind[p], cid[p], inRole[p], inMsg[p], loaded[p], created[p], conv[p],
      sent[p], partial[p], response[p], status[p], body[p]>>' #
    <<pc[p], kind[p], cid[p], inRole[p], inMsg[p], loaded[p], created[p], conv[p],
      sent[p], partial[p], response[p], status[p], body[p]>>

\* p receives a chat request and runs find_one
ChatStarts(p) == pc[p] = "idle" /\ Moved(p) /\ kind'[p] = "chat"
\* get_or_create_conversation returns to chat() from its insert branch
CreateReturns(p) == pc[p] = "insert" /\ pc'[p] = "query"
\* the completion call of p's chat fails
CompletionFails(p) == pc[p] = "query" /\ pc'[p] = "idle"
\* save_conversation of p's chat returns and chat() answers 200
SaveReturns(p) == pc[p] = "save" /\ pc'[p] = "idle" /\ status'[p] = 200

\* the two messages of p's exchange, while p is at its save
Exchange(p) == <<Message(inRole[p], inMsg[p]), Message("assistant", response[p])>>

\* the document insert_one writes for a conversation created for `id`
CreatedDocument(id) ==
    [conversation_id |-> id,
     messages |-> <<[role |-> "system", content |-> "You are a useful AI assistant."]>>,
     active |-> TRUE, seeded |-> FALSE]

-----------------------------------------------------------------------------
(* C1: every chat request that returns 200 leaves, as the persisted message
   sequence of its conversation id, the sequence it read from the store
   followed by exactly the request's message and then the assistant message
   holding the returned reply (length grown by exactly 2). *)
C1_SuccessfulChatPersistsExchange ==
    [][\A p \in Procs :
          SaveReturns(p) =>
              /\ HasDoc(store', cid[p])
              /\ response'[p] = response[p]
              /\ FindOne(store', cid[p]).messages = loaded[p].messages \o Exchange(p)
              /\ Len(FindOne(store', cid[p]).messages) = Len(loaded[p].messages) + 2]_vars

(* C2, as claimed: when the completion call of a chat fails, the persisted
   state of the conversation id is as it was before the request, also for an
   id that had no record when the request began (it has none afterwards). *)
C2_FailedChatLeavesNoTrace ==
    [][\A p \in Procs :
          CompletionFails(p) =>
              /\ store' = store
              /\ (created[p] => ~HasDoc(store', cid[p]))]_vars

(* C2, amended: a chat whose completion call fails writes no user message
   and no partial reply: the failing step and the request's read leave the
   store unchanged, and the only write of the request is the insert of the
   new one-message record when its read found no record for the id. *)
C2_FailedChatWritesOnlyCreation ==
    [][\A p \in Procs :
          /\ CompletionFails(p) => status'[p] = 500 /\ store' = store
          /\ ChatStarts(p) => store' = store
          /\ CreateReturns(p) => store' = Append(store, CreatedDocument(cid[p]))]_vars

\* a chat on a fresh id failed after a chunk had arrived: the record it
\* created holds the system message only
C2_Witness ==
    \E p \in Procs :
        /\ kind[p] = "chat" /\ status[p] = 500 /\ partial[p] = "a"
        /\ Len(store) = 1
        /\ store[1] = CreatedDocument(cid[p])

(* C3: a chat request that reads a conversation whose persisted active flag
   is false is answered 400, never reaches the completion call and leaves the
   store unchanged. *)
C3_InactiveChatRefused ==
    [][\A p \in Procs :
          (/\ ChatStarts(p)
           /\ HasDoc(store, cid'[p])
           /\ ~FindOne(store, cid'[p]).active)
          => /\ status'[p] = 400
             /\ pc'[p] = "idle"
             /\ sent'[p] = << >>
             /\ store' = store]_vars

\* a chat was refused on the seeded inactive conversation, which is still there
C3_Witness ==
    \E p \in Procs :
        /\ kind[p] = "chat" /\ status[p] = 400
        /\ HasDoc(store, cid[p])
        /\ ~FindOne(store, cid[p]).active
        /\ FindOne(store, cid[p]).messages = <<SystemMessage>>

(* C4: chat requests on one conversation id are not serialized.  When a
   chat's write lands on a record that another chat, answered 200, has
   extended since the writer read it, the writer is answered 200 as well and
   the record then holds what the writer read followed by the writer's own
   two messages: the exchange of the other chat is overwritten. *)
C4_LaterWriteOverwrites ==
    [][\A p, q \in Procs :
          (/\ pc[p] = "save" /\ pc'[p] = "idle" /\ store' # store
           /\ q # p /\ kind[q] = "chat" /\ status[q] = 200 /\ cid[q] = cid[p]
           /\ Len(FindOne(store, cid[p]).messages) = Len(loaded[p].messages) + 2
           /\ FindOne(store, cid[p]).messages[Len(loaded[p].messages) + 2] =
                  Message("assistant", response[q]))
          => /\ status'[p] = 200
             /\ FindOne(store', cid[p]).messages = loaded[p].messages \o Exchange(p)
             /\ Len(FindOne(store', cid[p]).messages) =
                    Len(FindOne(store, cid[p]).messages)]_vars

\* both chats read the one-message history; the first was answered 200 and
\* its exchange is persisted, the second is about to write its own exchange,
\* which differs from the persisted one, over it
C4_Witness ==
    \E p, q \in Procs :
        /\ p # q /\ pc[p] = "save" /\ cid[p] = cid[q]
        /\ kind[q] = "chat" /\ status[q] = 200
        /\ loaded[p].messages = <<SystemMessage>>
        /\ Len(store) = 1
        /\ Len(store[1].messages) = 3
        /\ SubSeq(store[1].messages, 1, 1) = loaded[p].messages
        /\ store[1].messages[3] = Message("assistant", response[q])
        /\ store[1].messages[2] # Exchange(p)[1]

(* C5: the update_one at the end of a chat exchange fails, and the chat is
   answered 500, whenever no record exists for the conversation id at the
   moment of the write; it never completes without writing. *)
C5_UpdateOfMissingRecordFails ==
    [][\A p \in Procs :
          (pc[p] = "save" /\ pc'[p] = "idle" /\ ~HasDoc(store, cid[p]))
          => status'[p] = 500]_vars

(* C6: get_or_create_conversation on an id with no record inserts a record
   and returns a conversation with exactly one message, the system message
   "You are a useful AI assistant.", and active = true; the inserted record
   holds the same. *)
C6_CreatedConversation ==
    [][\A p \in Procs :
          /\ (ChatStarts(p) /\ ~HasDoc(store, cid'[p]))
             => pc'[p] = "insert" /\ created'[p] /\ store' = store
          /\ CreateReturns(p)
             => /\ Len(loaded'[p].messages) = 1
                /\ loaded'[p].messages[1] =
                       [role |-> "system", content |-> "You are a useful AI assistant."]
                /\ loaded'[p].active = TRUE
                /\ loaded'[p].conversation_id = cid[p]
                /\ store' = Append(store, CreatedDocument(cid[p]))]_vars

\* get_or_create_conversation has created the record of a fresh id and
\* returned the new conversation to chat()
C6_Witness ==
    \E p \in Procs :
        /\ pc[p] = "query" /\ created[p]
        /\ loaded[p] = [conversation_id |-> cid[p], messages |-> <<SystemMessage>>,
                        active |-> TRUE]
        /\ store = <<CreatedDocument(cid[p])>>

\* get_or_create_conversation returns to chat() from its find branch
FindReturns(p) == ChatStarts(p) /\ pc'[p] = "query"
\* what a get_or_create_conversation(id) issued on store s returns as messages
\* when a record of id exists
WouldReturn(s, id) == Load(FindOne(s, id)).messages

(* C7: two get_or_create_conversation calls on one id with no store mutation
   between them return identical message sequences, and the second changes
   nothing: whenever a call returns, with or without a record before it, its
   messages are those a call issued right after it returns, and a call that
   found a record leaves the store unchanged. *)
C7_RepeatedGetOrCreateAgrees ==
    [][\A p \in Procs :
          /\ FindReturns(p)
             => store' = store /\ loaded'[p].messages = WouldReturn(store', cid'[p])
          /\ CreateReturns(p)
             => loaded'[p].messages = WouldReturn(store', cid[p])]_vars

\* p receives a delete request and runs delete_one
DeleteStarts(p) == pc[p] = "idle" /\ Moved(p) /\ kind'[p] = "delete"
\* p receives a get request and runs find_one
GetStarts(p) == pc[p] = "idle" /\ Moved(p) /\ kind'[p] = "get"

(* C8: delete on an id with no record answers 404 and changes nothing;
   delete on an id that has a record answers 200 and removes it, so that the
   id has no record until one is created and a get of the id, which answers
   404 exactly when it finds no record, reports not-found. *)
C8_DeleteRemovesRecord ==
    [][\A p \in Procs :
          /\ (DeleteStarts(p) /\ ~HasDoc(store, cid'[p]))
             => status'[p] = 404 /\ store' = store
          /\ (DeleteStarts(p) /\ HasDoc(store, cid'[p]))
             => status'[p] = 200 /\ ~HasDoc(store', cid'[p])
          /\ GetStarts(p)
             => /\ store' = store
                /\ (status'[p] = 404) = ~HasDoc(store, cid'[p])
                /\ status'[p] \in {200, 404}]_vars

\* entry i of a persisted message list comes from a request: the caller's
\* message at the even places, the assistant's reply at the odd ones
FromExchange(m, i) ==
    IF i % 2 = 0 THEN m.role \in InRoles /\ m.content \in InMessages
                 ELSE m.role = "assistant"

(* C9: in every reachable state every persisted record starts with the
   system message put there at creation, and nothing else in it was put
   there by creation: every later entry is a request's message or an
   assistant reply.  No chat, failed chat or interleaving of chats removes or
   replaces the first entry or inserts the system message again. *)
C9_SystemMessageFirst ==
    \A i \in 1..Len(store) :
        /\ Len(store[i].messages) >= 1
        /\ store[i].messages[1] =
               [role |-> "system", content |-> "You are a useful AI assistant."]
        /\ \A k \in 2..Len(store[i].messages) : FromExchange(store[i].messages[k], k)

\* a record that one chat extended while the chat of the other handler failed
C9_Witness ==
    \E p, q \in Procs :
        /\ p # q /\ kind[p] = "chat" /\ status[p] = 200
        /\ kind[q] = "chat" /\ status[q] = 500 /\ cid[q] = cid[p]
        /\ HasDoc(store, cid[p])
        /\ Len(FindOne(store, cid[p]).messages) = 3
        /\ FindOne(store, cid[p]).messages[1] = SystemMessage

IsPrefix(a, b) == Len(a) <= Len(b) /\ SubSeq(b, 1, Len(a)) = a

\* a step that keeps every record and changes the messages of record i
ChangesMessages(i) ==
    /\ Len(store') = Len(store)
    /\ store'[i].conversation_id = store[i].conversation_id
    /\ store'[i].messages # store[i].messages

(* C10, as claimed: under any interleaving of chat requests, every step that
   changes the persisted messages of an existing record leaves the old
   sequence as a prefix of the new one. *)
C10_AppendOnly ==
    [][\A i \in 1..Len(store) :
          ChangesMessages(i) => IsPrefix(store[i].messages, store'[i].messages)]_vars

(* C10, amended: a step that changes the persisted messages of an existing
   record is the write of one chat and sets them to the sequence that chat
   read followed by its two messages.  The old sequence is a prefix of the
   new one when the record still holds what the chat read; entries written to
   the record since that read are dropped by the write. *)
C10_AppendOnlyToWhatWasRead ==
    [][\A i \in 1..Len(store) :
          ChangesMessages(i) =>
              \E p \in Procs :
                  /\ SaveReturns(p)
                  /\ store[i].conversation_id = cid[p]
                  /\ i = FirstIndex(store, cid[p])
                  /\ store'[i].messages = loaded[p].messages \o Exchange(p)
                  /\ IsPrefix(loaded[p].messages, store'[i].messages)
                  /\ (store[i].messages = loaded[p].messages
                        => IsPrefix(store[i].messages, store'[i].messages))
                  /\ \A j \in 1..Len(store) : j # i => store'[j] = store[j]]_vars

\* a chat has extended the record it read, unchanged since, by its exchange
C10_Witness ==
    \E p \in Procs :
        /\ kind[p] = "chat" /\ status[p] = 200 /\ response[p] = "ab"
        /\ Len(store) = 1
        /\ store[1].conversation_id = cid[p]
        /\ Len(store[1].messages) = 3
        /\ store[1].messages[3] = Message("assistant", response[p])
        /\ \A q \in Procs : q # p => status[q] = 0

(* C11: the active flag of every conversation the system created is true at
   creation and stays true: in every reachable state every persisted record
   that was not seeded inactive out-of-band has active = true, and so has
   the conversation every chat request works on once past its gate. *)
C11_ActiveStaysTrue ==
    /\ \A i \in 1..Len(store) : ~store[i].seeded => store[i].active = TRUE
    /\ \A p \in Procs : pc[p] \in {"insert", "query", "save"} => conv[p].active = TRUE

\* the seeded inactive record was deleted and the record a chat then created
\* for the same id has been written by that chat
C11_Witness ==
    \E p, q \in Procs :
        /\ kind[p] = "chat" /\ status[p] = 200
        /\ kind[q] = "delete" /\ status[q] = 200 /\ cid[q] = cid[p]
        /\ Len(store) = 1
        /\ store[1].conversation_id = cid[p]
        /\ ~store[1].seeded /\ store[1].active
        /\ Len(store[1].messages) = 3

\* store s without its i-th document
Without(s, i) == [j \in 1..(Len(s) - 1) |-> IF j < i THEN s[j] ELSE s[j + 1]]

(* C12, as claimed: Deleted is terminal.  Once a delete of an id was answered
   200 and the id has no record, no later step of any request makes a record
   for that id exist again. *)
C12_DeletedIsTerminal ==
    [][\A q \in Procs :
          (/\ kind[q] = "delete" /\ status[q] = 200 /\ pc[q] = "idle"
           /\ ~HasDoc(store, cid[q]))
          => ~HasDoc(store', cid[q])]_vars

(* C12, amended: a record ends with delete and only with delete, which
   removes one record of the id; Deleted is not terminal for the id.  An id
   without a record gets one again exactly by a get_or_create_conversation
   that found none, and that record is a new one: the system message alone,
   active.  The write of a chat that finds no record for its id writes
   nothing, so a chat in flight at the delete does not bring the deleted
   record back. *)
C12_DeleteEndsRecordNotId ==
    [][/\ Len(store') < Len(store)
          => \E p \in Procs :
                 /\ pc[p] = "idle" /\ pc'[p] = "idle"
                 /\ kind'[p] = "delete" /\ status'[p] = 200
                 /\ \E i \in Matching(store, cid'[p]) : store' = Without(store, i)
       /\ \A id \in Ids :
              (~HasDoc(store, id) /\ HasDoc(store', id))
              => \E p \in Procs :
                     /\ CreateReturns(p) /\ cid[p] = id
                     /\ store' = Append(store, CreatedDocument(id))
       /\ \A p \in Procs :
              (pc[p] = "save" /\ pc'[p] = "idle" /\ ~HasDoc(store, cid[p]))
              => store' = store]_vars

\* a delete of the id was answered 200, the chat of the other handler then
\* found no record and created the id anew
C12_Witness ==
    \E p, q \in Procs :
        /\ kind[q] = "delete" /\ status[q] = 200 /\ pc[q] = "idle"
        /\ pc[p] = "query" /\ created[p] /\ cid[p] = cid[q]
        /\ store = <<CreatedDocument(cid[q])>>

\* the records persisted for an id, in the order of the collection
RecordsOf(s, id) == SelectSeq(s, LAMBDA d : d.conversation_id = id)

\* a step that leaves the records of every id but `id` as they are
OnlyTouches(id) ==
    \A other \in Ids : other # id => RecordsOf(store', other) = RecordsOf(store, other)

(* C13: conversations with different ids are independent.  Every step of a
   chat (successful or failed), get or delete on one id, interleaved in any
   way with requests on another id, leaves the persisted records of every
   other id (existence, messages, active) unchanged. *)
C13_IdsIndependent ==
    [][/\ \A p \in Procs : Moved(p) => OnlyTouches(cid'[p])
       /\ store' # store
          => \E p \in Procs : pc[p] \in {"idle", "insert", "save"} /\ OnlyTouches(cid'[p])]_vars

\* one handler's chat has written its exchange to the record of its id, the
\* other handler has deleted the record of another id, and the first record
\* is as the chat wrote it
C13_Witness ==
    \E p, q \in Procs :
        /\ cid[p] # cid[q]
        /\ kind[p] = "chat" /\ status[p] = 200 /\ pc[p] = "idle"
        /\ kind[q] = "delete" /\ status[q] = 200
        /\ Len(store) = 1
        /\ store[1].conversation_id = cid[p]
        /\ Len(store[1].messages) = 3
        /\ store[1].messages[3] = Message("assistant", response[p])

(* C14 (SpecAgg): the reply of query_groq_api does not depend on how the
   stream is cut into chunks.  For every stream, chunks with empty or absent
   content included, the loop holds after each chunk the text of the chunks
   consumed so far and the returned string is the text of the whole stream,
   which is what Aggregate computes in one step; two streams with the same
   text, such as <<f1, f2, f3>> and <<f1 \o f2, f3>>, give the same reply. *)
C14_ChunkingIndependent ==
    /\ \A p \in Procs :
           /\ pc[p] = "drain"
              => partial[p] = Concat(SubSeq(completion[p], 1, drained[p]))
           /\ pc[p] = "returned"
              => /\ drained[p] = Len(completion[p])
                 /\ response[p] = Concat(completion[p])
                 /\ response[p] = Aggregate(completion[p])
    /\ \A p, q \in Procs :
           (/\ pc[p] = "returned" /\ pc[q] = "returned"
            /\ Concat(completion[p]) = Concat(completion[q]))
           => response[p] = response[q]

\* <<f1, f2, f3>> and <<f1 \o f2, None, f3>> have both been drained
C14_Witness ==
    \E p, q \in Procs :
        /\ pc[p] = "returned" /\ pc[q] = "returned"
        /\ completion[p] = <<Content("a"), Content("b"), Content("a")>>
        /\ completion[q] = <<Content("ab"), NoContent, Content("a")>>
        /\ response[p] = "aba" /\ response[q] = "aba"

\* the text of the streams when they are drained to their end
FullReplies == {Concat(cs) : cs \in Streams}

(* C15: the aggregator exposes no partial output.  A reply comes out of the
   completion call only as the text of the whole stream, and it is then what
   chat() appends as the assistant message.  When the call or the stream
   fails, after any number of chunks, the chat is answered 500 with no
   reply, nothing is written to the store, and no persisted assistant
   message ever holds the text of a stream that was cut short. *)
C15_NoPartialOutput ==
    [][/\ \A p \in Procs :
              /\ CompletionFails(p)
                 => /\ status'[p] = 500
                    /\ response'[p] = ""
                    /\ store' = store
              /\ (pc[p] = "query" /\ pc'[p] = "save")
                 => /\ response'[p] \in FullReplies
                    /\ conv'[p].messages =
                           Append(conv[p].messages, Message("assistant", response'[p]))
       /\ \A i \in 1..Len(store') : \A k \in 1..Len(store'[i].messages) :
              store'[i].messages[k].role = "assistant"
              => store'[i].messages[k].content \in FullReplies]_vars

\* a chat on a conversation that holds an earlier exchange failed after one
\* chunk with text had arrived: no reply, the record as it was
C15_Witness ==
    \E p \in Procs :
        /\ kind[p] = "chat" /\ status[p] = 500
        /\ partial[p] = "a" /\ response[p] = ""
        /\ HasDoc(store, cid[p])
        /\ Len(FindOne(store, cid[p]).messages) = 3
        /\ FindOne(store, cid[p]).messages[3] = Message("assistant", "ab")

\* a chat request of p, past its gate, ends with this step
ChatEnds(p) == kind[p] = "chat" /\ pc[p] # "idle" /\ pc'[p] = "idle"

(* C16: the outcome of POST /chat.  It is 400 exactly when the conversation
   read from the store has active = false, and a request past that gate is
   never answered 400; it is 500 whenever the completion call fails or a
   persistence write fails, the update of a record that is not there
   included (the store's contract, C5); it is 200 only when neither failed. *)
C16_ChatOutcome ==
    [][\A p \in Procs :
          /\ ChatStarts(p)
             => /\ status'[p] \in {0, 400}
                /\ (status'[p] = 400) =
                       (HasDoc(store, cid'[p]) /\ ~FindOne(store, cid'[p]).active)
                /\ (status'[p] = 0) = (pc'[p] # "idle")
          /\ ChatEnds(p)
             => /\ status'[p] \in {200, 500}
                /\ (pc[p] \in {"insert", "query"} => status'[p] = 500)
                /\ (pc[p] = "save" /\ ~HasDoc(store, cid[p]) => status'[p] = 500)
                /\ (status'[p] = 200
                      => /\ pc[p] = "save"
                         /\ HasDoc(store, cid[p])
                         /\ FindOne(store', cid[p]).messages = conv[p].messages)]_vars

\* what p's request is to send: the messages it got from
\* get_or_create_conversation, then its own message
ToSend(p) == loaded[p].messages \o <<Message(inRole[p], inMsg[p])>>

(* C17: in every chat request that reaches the completion call, the list
   handed to the completion service is the whole message sequence the
   request read from the store for its id (that of the record it inserted,
   when it found none), in order, followed by exactly the request's message
   as its last element.  The list is the conversation's list when the call
   is made, whether the call succeeds or fails. *)
C17_FullHistorySent ==
    [][\A p \in Procs :
          /\ FindReturns(p)
             => /\ loaded'[p].messages = FindOne(store, cid'[p]).messages
                /\ conv'[p].messages = ToSend(p)'
          /\ CreateReturns(p)
             => /\ loaded'[p].messages = store'[Len(store')].messages
                /\ conv'[p].messages = ToSend(p)'
          /\ (pc[p] = "query" /\ pc'[p] # "query")
             => /\ conv[p].messages = ToSend(p)
                /\ Len(conv[p].messages) = Len(loaded[p].messages) + 1
                /\ conv[p].messages[Len(conv[p].messages)] = Message(inRole[p], inMsg[p])
          /\ (pc[p] = "query" /\ pc'[p] = "save")
             => sent'[p] = conv[p].messages]_vars

\* the completion call of a chat on an existing record has returned: it was
\* sent the stored messages and the request's message
C17_Witness ==
    \E p \in Procs :
        /\ pc[p] = "save" /\ ~created[p]
        /\ HasDoc(store, cid[p])
        /\ sent[p] = FindOne(store, cid[p]).messages \o <<Message(inRole[p], inMsg[p])>>
        /\ sent[p][1] = SystemMessage
        /\ Len(sent[p]) = 2

(* C18: in every reachable state, under any interleaving of concurrent
   chat, get and delete requests, the store holds at most one record per
   conversation id; two concurrent first requests for a fresh id never each
   insert a record. *)
C18_AtMostOneRecordPerId ==
    \A id \in Ids : Cardinality(Matching(store, id)) <= 1

(* C19: in every reachable state every persisted record holds an odd number
   of messages, the system message and whole exchanges: each message of a
   request is directly followed by an assistant reply, under any sequence or
   interleaving of successful chats, failed chats and deletes. *)
C19_WholeExchanges ==
    \A i \in 1..Len(store) :
        LET m == store[i].messages
        IN /\ Len(m) % 2 = 1
           /\ \A k \in 2..Len(m) :
                  k % 2 = 0
                  => /\ k + 1 <= Len(m)
                     /\ m[k].role \in InRoles /\ m[k].content \in InMessages
                     /\ m[k + 1].role = "assistant"

\* the seeded record of the id was deleted, a chat created the id anew and
\* wrote its exchange, and a later chat on the id failed after a chunk had
\* arrived: the record holds the system message and the one whole exchange
C19_Witness ==
    \E p, q \in Procs :
        /\ p # q /\ cid[p] = cid[q]
        /\ kind[q] = "delete" /\ status[q] = 200
        /\ kind[p] = "chat" /\ status[p] = 500 /\ partial[p] = "a"
        /\ Len(store) = 1
        /\ store[1].conversation_id = cid[p] /\ ~store[1].seeded
        /\ Len(store[1].messages) = 3
        /\ store[1].messages[3].role = "assistant"

(* C20: whenever a chat request is answered 200 with reply r, the store
   holds at the moment of the response a record of its conversation id whose
   last two messages are the request's message and the assistant message
   with content r, under any interleaving with deletes and other chats. *)
C20_SuccessMeansPersisted ==
    [][\A p \in Procs :
          SaveReturns(p) =>
              /\ response'[p] = response[p]
              /\ \E i \in Matching(store', cid[p]) :
                     LET m == store'[i].messages
                     IN /\ Len(m) >= 2
                        /\ m[Len(m) - 1] = Message(inRole[p], inMsg[p])
                        /\ m[Len(m)] = Message("assistant", response'[p])]_vars
====
